---- MODULE Spec2Model ----
(***************************************************************************)
(* safe-ts-env: getEnv / getStackProps.  One exported function per package *)
(* loads a file, converts the raw content with its toJSON method, hands    *)
(* the converted value to a zod object schema and returns a spread copy of *)
(* the parsed value; any failure is optionally logged and rethrown.        *)
(*                                                                         *)
(* The model runs two invocations, step by step and freely interleaved,    *)
(* over one file system, one process.env.DEBUG and one console.            *)
(***************************************************************************)
EXTENDS Integers, Sequences, FiniteSets, TLC

\* ------------------------------------------------------------------------
\* Bounds of the model
\* ------------------------------------------------------------------------

\* longest array of path segments passed as pathOfEnvFile
MaxSegments == 2

\* the two invocations
Calls == {"A", "B"}

\* ------------------------------------------------------------------------
\* JavaScript values
\* ------------------------------------------------------------------------

\* a field value: a string or an array of numbers
Str(s) == [type |-> "string", str |-> s, data |-> <<>>]
Arr(a) == [type |-> "array", str |-> "", data |-> a]

\* an object is a function from its own field names to field values
EmptyObject == [k \in {} |-> Str("")]

\* pathOfEnvFile: string | Array<string>
StringPath(s) == [isArray |-> FALSE, str |-> s, segments |-> <<>>]
ArrayPath(a) == [isArray |-> TRUE, str |-> "", segments |-> a]

\* no error caught / no file read
NoError == [name |-> "", code |-> "", path |-> "", issues |-> {}, origin |-> "", cause |-> ""]
NoFile == [kind |-> "", bytes |-> <<>>, json |-> EmptyObject]

\* ------------------------------------------------------------------------
\* The inputs the invocations draw from
\* ------------------------------------------------------------------------

Functions == {"getEnv", "getStackProps"}

Segments == {"env", "prod.json"}

RECURSIVE SeqsUpTo(_)
SeqsUpTo(n) ==
  IF n = 0 THEN {<<>>}
  ELSE LET shorter == SeqsUpTo(n - 1)
       IN shorter \cup {Append(s, x) : s \in {t \in shorter : Len(t) = n - 1}, x \in Segments}

\* the location given as one string
StringPaths == {"env/prod.json"}

Locations ==
  {StringPath(s) : s \in StringPaths} \cup {ArrayPath(a) : a \in SeqsUpTo(MaxSegments)}

\* z.object({ name: z.string(), region: z.string() }), z.object({ type: z.string() })
\* and z.object({ name: z.number() }): a shape is a function from keys to types
Schemas ==
  { [name |-> "string", region |-> "string"],
    [type |-> "string"],
    [name |-> "number"] }

\* values of process.env.DEBUG: <<>> is an absent variable
DebugValues == {<<>>, <<"">>, <<"true">>}

\* ------------------------------------------------------------------------
\* File contents
\* ------------------------------------------------------------------------

\* the UTF-8 bytes of the strings the fixture files are written with
Utf8(s) ==
  CASE s = "name" -> <<110, 97, 109, 101>>
    [] s = "region" -> <<114, 101, 103, 105, 111, 110>>
    [] s = "svc" -> <<115, 118, 99>>
    [] s = "us-east-1" -> <<117, 115, 45, 101, 97, 115, 116, 45, 49>>

KeyOrder == <<"name", "region", "type">>

\* the JSON text, as bytes, of an object whose fields are strings
JSONText(o) ==
  LET keys == SelectSeq(KeyOrder, LAMBDA k : k \in DOMAIN o)
      member(k) == <<34>> \o Utf8(k) \o <<34, 58, 34>> \o Utf8(o[k].str) \o <<34>>
      members[i \in 0..Len(keys)] ==
        IF i = 0 THEN <<>>
        ELSE IF i = 1 THEN member(keys[1])
        ELSE members[i - 1] \o <<44>> \o member(keys[i])
  IN <<123>> \o members[Len(keys)] \o <<125>>

\* {"name":"svc","region":"us-east-1"}
ProdConfig == [name |-> Str("svc"), region |-> Str("us-east-1")]

\* a Buffer holding a file's bytes, as fs.readFileSync returns it
Buffer(b) == [kind |-> "Buffer", bytes |-> b, json |-> EmptyObject]

\* the tests' stand-in for a Buffer: { toJSON: jest.fn().mockReturnValue(data) }
mockBuffer(data) == [kind |-> "mockBuffer", bytes |-> <<>>, json |-> data]

Directory == [kind |-> "directory", bytes |-> <<>>, json |-> EmptyObject]

\* what the read primitive finds at each path: the production file, the two
\* buffers of the tests (a value the schema of two strings accepts, and one without
\* region), and the working directory; every other path is absent
Files ==
  [p \in {"env/prod.json", "prod.json", "env", "."} |->
    CASE p = "env/prod.json" -> Buffer(JSONText(ProdConfig))
      [] p = "prod.json" ->
           mockBuffer([name |-> Str("test-stack"), region |-> Str("us-west-2")])
      [] p = "env" -> mockBuffer([name |-> Str("test-stack")])
      [] OTHER -> Directory]

\* ------------------------------------------------------------------------
\* The primitives the loader calls
\* ------------------------------------------------------------------------

\* path.join: the non-empty segments separated by "/", "." when there is none
join(args) ==
  LET nonEmpty == SelectSeq(args, LAMBDA s : s # "")
      joined[i \in 0..Len(nonEmpty)] ==
        IF i = 0 THEN ""
        ELSE IF i = 1 THEN nonEmpty[1]
        ELSE joined[i - 1] \o "/" \o nonEmpty[i]
  IN IF Len(nonEmpty) = 0 THEN "." ELSE joined[Len(nonEmpty)]

\* fs.readFileSync(path): the file's content, or a thrown system error
readFileSync(files, path) ==
  IF path \notin DOMAIN files
  THEN [ok |-> FALSE, content |-> NoFile,
        err |-> [NoError EXCEPT !.name = "Error", !.code = "ENOENT", !.path = path,
                                !.origin = "readFileSync"]]
  ELSE IF files[path].kind = "directory"
  THEN [ok |-> FALSE, content |-> NoFile,
        err |-> [NoError EXCEPT !.name = "Error", !.code = "EISDIR", !.path = path,
                                !.origin = "readFileSync"]]
  ELSE [ok |-> TRUE, content |-> files[path], err |-> NoError]

\* envFile.toJSON(): a Buffer gives { type: 'Buffer', data: [...bytes] }, whatever
\* text the bytes spell; a mocked buffer gives the value it was set up with
toJSON(file) ==
  IF file.kind = "Buffer"
  THEN [type |-> Str("Buffer"), data |-> Arr(file.bytes)]
  ELSE file.json

\* envSchema.parse(value) of a z.object: every key of the shape must be present
\* with the declared type; unknown keys are stripped; a failure throws a ZodError
\* with one invalid_type issue per failing key
parse(schema, value) ==
  LET bad == {k \in DOMAIN schema : k \notin DOMAIN value \/ value[k].type # schema[k]}
      issues == {[path |-> k, code |-> "invalid_type", expected |-> schema[k],
                  received |-> IF k \in DOMAIN value THEN value[k].type ELSE "undefined"]
                 : k \in bad}
  IN IF bad = {}
     THEN [ok |-> TRUE, value |-> [k \in DOMAIN schema |-> value[k]], err |-> NoError]
     ELSE [ok |-> FALSE, value |-> EmptyObject,
           err |-> [NoError EXCEPT !.name = "ZodError", !.issues = issues,
                                   !.origin = "parse"]]

\* JavaScript truthiness of process.env.DEBUG
Truthy(debug) == Len(debug) = 1 /\ debug[1] # ""

\* ------------------------------------------------------------------------
\* getStackProps (src/index.ts), expression by expression
\* ------------------------------------------------------------------------

\* Array.isArray(pathOfEnvFile) ? join(...pathOfEnvFile) : join(pathOfEnvFile)
getStackProps_joinArgs(p) == IF p.isArray THEN p.segments ELSE <<p.str>>

\* a slip: return {} without the spread
getStackProps_spreadNothing(e) == EmptyObject

\* return { ...env }: a new object with env's own fields
getStackProps_spread(e) == [k \in DOMAIN e |-> e[k]]

\* a slip: the DEBUG guard left out
getStackProps_logsAlways(debug) == TRUE

\* a slip: return env, the object parse returned
getStackProps_objectIsEnv == "env"

\* the object return { ...env } hands to the caller: the object literal makes a new
\* one ("new"), which is neither env ("env") nor the converted value ("json")
getStackProps_object == "new"

\* a slip: the flag compared with 'true'
getStackProps_logsIfTrue(debug) == debug = <<"true">>

\* process.env.DEBUG && console.error(...)
getStackProps_logs(debug) == Truthy(debug)

\* console.error('Error loading env file:', err)
getStackProps_logLine(e) == [message |-> "Error loading env file:", err |-> e]

\* throw err
getStackProps_rethrow(e) == e

\* a slip: a validation failure swallowed, the function returning what it has
getStackProps_nextSwallows(at, ok) ==
  CASE at = "join" -> "readFileSync"
    [] at = "readFileSync" -> IF ok THEN "toJSON" ELSE "catch"
    [] at = "toJSON" -> "parse"
    [] at = "parse" -> "return"
    [] at = "catch" -> "throw"
    [] at = "return" -> "done"
    [] at = "throw" -> "done"

\* where control goes after the step at `at` ended normally (ok) or threw
getStackProps_next(at, ok) ==
  CASE at = "join" -> "readFileSync"
    [] at = "readFileSync" -> IF ok THEN "toJSON" ELSE "catch"
    [] at = "toJSON" -> "parse"
    [] at = "parse" -> IF ok THEN "return" ELSE "catch"
    [] at = "catch" -> "throw"
    [] at = "return" -> "done"
    [] at = "throw" -> "done"

\* ------------------------------------------------------------------------
\* getEnv (the compiled package), expression by expression
\* ------------------------------------------------------------------------

\* a slip: the segments passed to join last to first
getEnv_joinArgsReversed(p) ==
  IF p.isArray
  THEN [i \in 1..Len(p.segments) |-> p.segments[Len(p.segments) + 1 - i]]
  ELSE <<p.str>>

\* Array.isArray(pathOfEnvFile) ? (0, path_1.join)(...pathOfEnvFile) : (0, path_1.join)(pathOfEnvFile)
getEnv_joinArgs(p) == IF p.isArray THEN p.segments ELSE <<p.str>>

\* return { ...env }
getEnv_spread(e) == [k \in DOMAIN e |-> e[k]]

\* the object return { ...env } hands to the caller
getEnv_object == "new"

\* process.env.DEBUG && console.error(...)
getEnv_logs(debug) == Truthy(debug)

\* a slip: the two packages logging under different prefixes
getEnv_logLineOtherPrefix(e) == [message |-> "Error loading stack props:", err |-> e]

\* console.error('Error loading env file:', err)
getEnv_logLine(e) == [message |-> "Error loading env file:", err |-> e]

\* a slip: throw new Error('...', { cause: err })
getEnv_rethrowWrapped(e) ==
  [NoError EXCEPT !.name = "Error", !.origin = "getEnv", !.cause = e.origin]

\* throw err
getEnv_rethrow(e) == e

\* a slip: a failed read tried again
getEnv_nextRetries(at, ok) ==
  CASE at = "join" -> "readFileSync"
    [] at = "readFileSync" -> IF ok THEN "toJSON" ELSE "readFileSync"
    [] at = "toJSON" -> "parse"
    [] at = "parse" -> IF ok THEN "return" ELSE "catch"
    [] at = "catch" -> "throw"
    [] at = "return" -> "done"
    [] at = "throw" -> "done"

\* where control goes after the step at `at` ended normally (ok) or threw
getEnv_next(at, ok) ==
  CASE at = "join" -> "readFileSync"
    [] at = "readFileSync" -> IF ok THEN "toJSON" ELSE "catch"
    [] at = "toJSON" -> "parse"
    [] at = "parse" -> IF ok THEN "return" ELSE "catch"
    [] at = "catch" -> "throw"
    [] at = "return" -> "done"
    [] at = "throw" -> "done"

\* the exported function f, expression by expression
joinArgs(f, p) == IF f = "getEnv" THEN getEnv_joinArgs(p) ELSE getStackProps_joinArgs(p)
object(f) == IF f = "getEnv" THEN getEnv_object ELSE getStackProps_object
spread(f, e) == IF f = "getEnv" THEN getEnv_spread(e) ELSE getStackProps_spread(e)
logs(f, debug) == IF f = "getEnv" THEN getEnv_logs(debug) ELSE getStackProps_logs(debug)
logLine(f, e) == IF f = "getEnv" THEN getEnv_logLine(e) ELSE getStackProps_logLine(e)
rethrow(f, e) == IF f = "getEnv" THEN getEnv_rethrow(e) ELSE getStackProps_rethrow(e)
next(f, at, ok) == IF f = "getEnv" THEN getEnv_next(at, ok) ELSE getStackProps_next(at, ok)

\* ------------------------------------------------------------------------
\* State
\* ------------------------------------------------------------------------

VARIABLES
  fs,             \* the file system: path -> content
  DEBUG,          \* process.env.DEBUG
  console,        \* the console.error calls made so far
  pc,             \* per invocation: the step it is about to take
  fn,             \* per invocation: the exported function called
  pathOfEnvFile,  \* per invocation: first argument
  envSchema,      \* per invocation: second argument
  path,           \* per invocation: what join returned
  envFile,        \* per invocation: const envFile
  json,           \* per invocation: the value of envFile.toJSON()
  env,            \* per invocation: const env
  err,            \* per invocation: the caught err
  outcome,        \* per invocation: what the caller got
  trace,          \* per invocation: the calls it made to its collaborators
  held,           \* per invocation: which object the caller holds once it returned
  debugAtCall     \* per invocation: process.env.DEBUG as it was when it was called

shared == <<fs, DEBUG, console>>
args == <<fn, pathOfEnvFile, envSchema>>
locals == <<path, envFile, json, env, err>>
caller == <<held, debugAtCall>>
vars == <<fs, DEBUG, console, pc, fn, pathOfEnvFile, envSchema, path, envFile, json, env,
          err, outcome, trace, held, debugAtCall>>

NoOutcome == [kind |-> "none", value |-> EmptyObject, error |-> NoError]
Returned(v) == [kind |-> "returned", value |-> v, error |-> NoError]
Thrown(e) == [kind |-> "thrown", value |-> EmptyObject, error |-> e]

\* one call to a collaborator: its name, its string arguments, its object argument
Called(step, strs, obj) == [step |-> step, args |-> strs, value |-> obj]

Init ==
  /\ fs = Files
  /\ DEBUG \in DebugValues
  /\ console = <<>>
  /\ pc = [c \in Calls |-> "idle"]
  /\ fn = [c \in Calls |-> "getEnv"]
  /\ pathOfEnvFile = [c \in Calls |-> StringPath("")]
  /\ envSchema = [c \in Calls |-> EmptyObject]
  /\ path = [c \in Calls |-> ""]
  /\ envFile = [c \in Calls |-> NoFile]
  /\ json = [c \in Calls |-> EmptyObject]
  /\ env = [c \in Calls |-> EmptyObject]
  /\ err = [c \in Calls |-> NoError]
  /\ outcome = [c \in Calls |-> NoOutcome]
  /\ trace = [c \in Calls |-> <<>>]
  /\ held = [c \in Calls |-> "none"]
  /\ debugAtCall = [c \in Calls |-> <<>>]

\* ------------------------------------------------------------------------
\* The steps of one invocation
\* ------------------------------------------------------------------------

\* the caller invokes getEnv or getStackProps with a location and a schema
Call(c) ==
  /\ pc[c] = "idle"
  /\ \E f \in Functions, p \in Locations, s \in Schemas :
       /\ fn' = [fn EXCEPT ![c] = f]
       /\ pathOfEnvFile' = [pathOfEnvFile EXCEPT ![c] = p]
       /\ envSchema' = [envSchema EXCEPT ![c] = s]
  /\ pc' = [pc EXCEPT ![c] = "join"]
  /\ debugAtCall' = [debugAtCall EXCEPT ![c] = DEBUG]
  /\ UNCHANGED <<shared, locals, outcome, trace, held>>

\* join(...pathOfEnvFile) or join(pathOfEnvFile)
Join(c) ==
  /\ pc[c] = "join"
  /\ LET a == joinArgs(fn[c], pathOfEnvFile[c])
     IN /\ path' = [path EXCEPT ![c] = join(a)]
        /\ trace' = [trace EXCEPT ![c] = Append(@, Called("join", a, EmptyObject))]
  /\ pc' = [pc EXCEPT ![c] = next(fn[c], "join", TRUE)]
  /\ UNCHANGED <<shared, args, envFile, json, env, err, outcome, caller>>

\* const envFile = readFileSync(<the joined path>)
ReadFileSync(c) ==
  /\ pc[c] = "readFileSync"
  /\ LET r == readFileSync(fs, path[c])
     IN /\ envFile' = [envFile EXCEPT ![c] = r.content]
        /\ err' = [err EXCEPT ![c] = r.err]
        /\ pc' = [pc EXCEPT ![c] = next(fn[c], "readFileSync", r.ok)]
  /\ trace' = [trace EXCEPT ![c] = Append(@, Called("readFileSync", <<path[c]>>, EmptyObject))]
  /\ UNCHANGED <<shared, args, path, json, env, outcome, caller>>

\* envFile.toJSON()
ToJSON(c) ==
  /\ pc[c] = "toJSON"
  /\ json' = [json EXCEPT ![c] = toJSON(envFile[c])]
  /\ trace' = [trace EXCEPT ![c] = Append(@, Called("toJSON", <<>>, EmptyObject))]
  /\ pc' = [pc EXCEPT ![c] = next(fn[c], "toJSON", TRUE)]
  /\ UNCHANGED <<shared, args, path, envFile, env, err, outcome, caller>>

\* a slip: the converted value kept in a variable of the module, which a second
\* invocation overwrites
ParseSharedJson(c) ==
  /\ pc[c] = "parse"
  /\ LET other == CHOOSE d \in Calls : d # c
         latest == IF pc[other] \in {"parse", "return", "catch", "throw", "done"}
                      /\ envFile[other] # NoFile
                   THEN json[other] ELSE json[c]
         r == parse(envSchema[c], latest)
     IN /\ env' = [env EXCEPT ![c] = r.value]
        /\ err' = [err EXCEPT ![c] = r.err]
        /\ pc' = [pc EXCEPT ![c] = next(fn[c], "parse", r.ok)]
        /\ trace' = [trace EXCEPT ![c] = Append(@, Called("parse", <<>>, latest))]
  /\ UNCHANGED <<shared, args, path, envFile, json, outcome, caller>>

\* const env = envSchema.parse(<the converted value>)
Parse(c) ==
  /\ pc[c] = "parse"
  /\ LET r == parse(envSchema[c], json[c])
     IN /\ env' = [env EXCEPT ![c] = r.value]
        /\ err' = [err EXCEPT ![c] = r.err]
        /\ pc' = [pc EXCEPT ![c] = next(fn[c], "parse", r.ok)]
  /\ trace' = [trace EXCEPT ![c] = Append(@, Called("parse", <<>>, json[c]))]
  /\ UNCHANGED <<shared, args, path, envFile, json, outcome, caller>>

\* return { ...env }
Return(c) ==
  /\ pc[c] = "return"
  /\ outcome' = [outcome EXCEPT ![c] = Returned(spread(fn[c], env[c]))]
  /\ held' = [held EXCEPT ![c] = object(fn[c])]
  /\ pc' = [pc EXCEPT ![c] = next(fn[c], "return", TRUE)]
  /\ UNCHANGED <<shared, args, locals, trace, debugAtCall>>

\* a slip: the flag cleared once a failure has been logged
CatchClearsDebug(c) ==
  /\ pc[c] = "catch"
  /\ IF logs(fn[c], DEBUG)
     THEN LET line == logLine(fn[c], err[c])
          IN /\ console' = Append(console, [by |-> c, message |-> line.message, err |-> line.err])
             /\ trace' = [trace EXCEPT ![c] = Append(@, Called("console.error", <<line.message>>, EmptyObject))]
             /\ DEBUG' = <<>>
     ELSE UNCHANGED <<console, trace, DEBUG>>
  /\ pc' = [pc EXCEPT ![c] = next(fn[c], "catch", TRUE)]
  /\ UNCHANGED <<fs, args, locals, outcome, caller>>

\* catch (err) { process.env.DEBUG && console.error('Error loading env file:', err);
Catch(c) ==
  /\ pc[c] = "catch"
  /\ IF logs(fn[c], DEBUG)
     THEN LET line == logLine(fn[c], err[c])
          IN /\ console' = Append(console, [by |-> c, message |-> line.message, err |-> line.err])
             /\ trace' = [trace EXCEPT ![c] = Append(@, Called("console.error", <<line.message>>, EmptyObject))]
     ELSE UNCHANGED <<console, trace>>
  /\ pc' = [pc EXCEPT ![c] = next(fn[c], "catch", TRUE)]
  /\ UNCHANGED <<fs, DEBUG, args, locals, outcome, caller>>

\* throw err; }
Throw(c) ==
  /\ pc[c] = "throw"
  /\ outcome' = [outcome EXCEPT ![c] = Thrown(rethrow(fn[c], err[c]))]
  /\ pc' = [pc EXCEPT ![c] = next(fn[c], "throw", TRUE)]
  /\ UNCHANGED <<shared, args, locals, trace, caller>>

\* f(p, s) run from call to return or throw with nothing else running
Alone(f, p, s) ==
  LET r == readFileSync(fs, join(joinArgs(f, p)))
      z == parse(s, toJSON(r.content))
      failed == ~r.ok \/ ~z.ok
      e == IF r.ok THEN z.err ELSE r.err
  IN [outcome |-> IF failed THEN Thrown(rethrow(f, e)) ELSE Returned(spread(f, z.value)),
      lines |-> IF failed /\ logs(f, DEBUG) THEN <<logLine(f, e)>> ELSE <<>>]

Step(c) ==
  \/ Call(c)
  \/ Join(c)
  \/ ReadFileSync(c)
  \/ ToJSON(c)
  \/ Parse(c)
  \/ Return(c)
  \/ Catch(c)
  \/ Throw(c)

Next == \E c \in Calls : Step(c)

Spec == Init /\ [][Next]_vars

\* ------------------------------------------------------------------------
\* The caller changing the object it was returned
\* ------------------------------------------------------------------------

\* the objects one change of a top-level field turns o into: a field added,
\* a field removed, a field reassigned
Changes(o) ==
  ( {[k \in DOMAIN o \cup {"added"} |-> IF k \in DOMAIN o THEN o[k] ELSE Str("new")]}
    \cup {[j \in DOMAIN o \ {k} |-> o[j]] : k \in DOMAIN o}
    \cup {[o EXCEPT ![k] = Str("changed")] : k \in DOMAIN o} ) \ {o}

\* the caller adds, removes or reassigns a field of the returned object; the change
\* shows in env or in the converted value when the returned object is that object
Mutate(c) ==
  /\ pc[c] = "done"
  /\ outcome[c].kind = "returned"
  /\ \E v \in Changes(outcome[c].value) :
       /\ outcome' = [outcome EXCEPT ![c].value = v]
       /\ env' = IF held[c] = "env" THEN [env EXCEPT ![c] = v] ELSE env
       /\ json' = IF held[c] = "json" THEN [json EXCEPT ![c] = v] ELSE json
  /\ UNCHANGED <<shared, args, pc, path, envFile, err, trace, caller>>

\* one invocation and its caller
NextCaller == Step("A") \/ Mutate("A")

SpecCaller == Init /\ [][NextCaller]_vars

\* ------------------------------------------------------------------------
\* The operator changing process.env.DEBUG while an invocation runs
\* ------------------------------------------------------------------------

\* the values the operator gives DEBUG
FlagValues == DebugValues \cup {<<"false">>, <<"0">>}

\* DEBUG is set to another value, or unset
SetDebug ==
  /\ \E v \in FlagValues : v # DEBUG /\ DEBUG' = v
  /\ UNCHANGED <<fs, console, args, pc, locals, outcome, trace, caller>>

\* one invocation and the operator
NextOperator == Step("A") \/ SetDebug

SpecOperator == Init /\ [][NextOperator]_vars

\* ------------------------------------------------------------------------
\* What an invocation's inputs determine, by the collaborators' contracts alone
\* ------------------------------------------------------------------------

Started(c) == pc[c] # "idle"
Done(c) == pc[c] = "done"

\* the segments of the location, in order; a string location is its only segment
SegmentsOf(c) ==
  IF pathOfEnvFile[c].isArray THEN pathOfEnvFile[c].segments ELSE <<pathOfEnvFile[c].str>>

ReadOf(c) == readFileSync(fs, join(SegmentsOf(c)))
StructuredOf(c) == toJSON(ReadOf(c).content)
ParseOf(c) == parse(envSchema[c], StructuredOf(c))

ReadFails(c) == ~ReadOf(c).ok
ParseFails(c) == ReadOf(c).ok /\ ~ParseOf(c).ok
Valid(c) == ReadOf(c).ok /\ ParseOf(c).ok

\* the error value raised by the step that fails
RaisedOf(c) == IF ReadFails(c) THEN ReadOf(c).err ELSE ParseOf(c).err

\* the console.error calls invocation c made
LinesBy(c) == SelectSeq(console, LAMBDA l : l.by = c)

\* ------------------------------------------------------------------------
\* Claims
\* ------------------------------------------------------------------------

\* C1: whenever the read succeeds and the schema accepts the converted value v,
\* the invocation returns normally an object whose fields and values are exactly
\* those of schema.parse(v).
C1_ReturnsParsed ==
  \A c \in Calls :
    (Done(c) /\ Valid(c)) => outcome[c] = Returned(ParseOf(c).value)

\* an invocation returned an object of two fields parsed from a converted value
C1_Witness ==
  \E c \in Calls :
    /\ Done(c) /\ Valid(c)
    /\ outcome[c].kind = "returned"
    /\ DOMAIN outcome[c].value = {"name", "region"}

\* the objects whose JSON text the fixture files may hold
JSONObjects == {ProdConfig, [name |-> Str("svc")]}

\* C2: when the file read is a real Buffer holding the JSON text of an object o
\* with named fields that the schema accepts, the invocation returns the object
\* with those named fields (Scenario A: {name:"svc", region:"us-east-1"}).
C2_ReturnsJsonFields ==
  \A c \in Calls : \A o \in JSONObjects :
    ( /\ Done(c)
      /\ ReadOf(c).ok
      /\ ReadOf(c).content.kind = "Buffer"
      /\ ReadOf(c).content.bytes = JSONText(o)
      /\ parse(envSchema[c], o).ok )
    => outcome[c] = Returned(parse(envSchema[c], o).value)

\* C3: join is called once, with exactly the segments of the location in order
\* (the string itself for a string location); readFileSync is called with the
\* path that join returned and with no other path.
C3_JoinThenRead ==
  \A c \in Calls :
    /\ \A i \in 1..Len(trace[c]) :
         /\ trace[c][i].step = "join" => (i = 1 /\ trace[c][i].args = SegmentsOf(c))
         /\ trace[c][i].step = "readFileSync" =>
              (i = 2 /\ trace[c][i].args = <<join(SegmentsOf(c))>>)
    /\ pc[c] \notin {"idle", "join"} =>
         (Len(trace[c]) >= 1 /\ trace[c][1].step = "join")
    /\ pc[c] \notin {"idle", "join", "readFileSync"} =>
         (Len(trace[c]) >= 2 /\ trace[c][2].step = "readFileSync")

\* an array of two different segments was joined and the joined path was read
C3_Witness ==
  \E c \in Calls :
    /\ pathOfEnvFile[c].isArray
    /\ Len(pathOfEnvFile[c].segments) = 2
    /\ pathOfEnvFile[c].segments[1] # pathOfEnvFile[c].segments[2]
    /\ Len(trace[c]) >= 2
    /\ trace[c][2].step = "readFileSync"

\* C4: whenever readFileSync fails with an error e, the invocation fails with that
\* same error value e, with DEBUG set or not, and never returns a value.
C4_ReadErrorPropagates ==
  \A c \in Calls :
    (Started(c) /\ ReadFails(c)) =>
      /\ outcome[c].kind # "returned"
      /\ Done(c) => outcome[c] = Thrown(ReadOf(c).err)

\* a failed read reached the caller as the read primitive's own error
C4_Witness ==
  \E c \in Calls :
    /\ Done(c) /\ ReadFails(c)
    /\ outcome[c].kind = "thrown"
    /\ outcome[c].error.origin = "readFileSync"
    /\ outcome[c].error.code = "ENOENT"

\* C5: whenever the converted value lacks a field the schema requires, or holds
\* one of the wrong type, the invocation fails with the error schema.parse raised,
\* which names every such field, and never returns an object.
C5_ValidationErrorPropagates ==
  \A c \in Calls :
    (Started(c) /\ ParseFails(c)) =>
      /\ outcome[c].kind # "returned"
      /\ Done(c) =>
           /\ outcome[c] = Thrown(ParseOf(c).err)
           /\ outcome[c].error.name = "ZodError"
           /\ \A k \in DOMAIN envSchema[c] :
                (k \notin DOMAIN StructuredOf(c) \/ StructuredOf(c)[k].type # envSchema[c][k])
                => \E i \in outcome[c].error.issues : i.path = k

\* a value without the required field region was refused (Scenario D)
C5_Witness ==
  \E c \in Calls :
    /\ Done(c) /\ ParseFails(c)
    /\ "name" \in DOMAIN StructuredOf(c)
    /\ "region" \notin DOMAIN StructuredOf(c)
    /\ outcome[c].kind = "thrown"
    /\ \E i \in outcome[c].error.issues : i.path = "region" /\ i.received = "undefined"

\* the console.error calls of invocation c, as the arguments passed
LoggedBy(c) ==
  LET l == LinesBy(c) IN [i \in 1..Len(l) |-> [message |-> l[i].message, err |-> l[i].err]]

\* the calls to join, readFileSync, toJSON and parse that invocation c made
StepsOf(c) == SelectSeq(trace[c], LAMBDA t : t.step # "console.error")

\* C6: a failing invocation emits no log line when DEBUG is not set and exactly
\* one when it is, made of the prefix 'Error loading env file:' and the original
\* error, and emitted before the failure reaches the caller; a successful
\* invocation emits none.
C6_LogLines ==
  \A c \in Calls :
    /\ (pc[c] = "throw" \/ (Done(c) /\ outcome[c].kind = "thrown")) =>
         IF Truthy(DEBUG)
         THEN LoggedBy(c) = <<[message |-> "Error loading env file:", err |-> RaisedOf(c)]>>
         ELSE LoggedBy(c) = <<>>
    /\ (pc[c] \notin {"throw", "done"} \/ outcome[c].kind = "returned") => LoggedBy(c) = <<>>

\* with DEBUG set, a failure is about to reach the caller and its line is out
C6_Witness ==
  \E c \in Calls :
    /\ pc[c] = "throw"
    /\ Truthy(DEBUG)
    /\ Len(LoggedBy(c)) = 1
    /\ LoggedBy(c)[1].err.name = "ZodError"

\* C7: join, read, conversion and validation are each executed at most once and
\* in that order; after a failing step no later step runs and none is retried;
\* the invocation ends either with a returned object, only when all four steps
\* succeeded, or with a propagated failure.
C7_StepsOnceInOrder ==
  LET Order == <<"join", "readFileSync", "toJSON", "parse">>
  IN \A c \in Calls :
       /\ Len(StepsOf(c)) <= 4
       /\ \A i \in 1..Len(StepsOf(c)) : StepsOf(c)[i].step = Order[i]
       /\ (Started(c) /\ ReadFails(c)) => Len(StepsOf(c)) <= 2
       /\ Done(c) =>
            /\ outcome[c].kind \in {"returned", "thrown"}
            /\ outcome[c].kind = "returned" <=> (Valid(c) /\ Len(StepsOf(c)) = 4)
       /\ ~Done(c) => outcome[c] = NoOutcome

\* a failed read ended the invocation after two steps
C7_Witness ==
  \E c \in Calls :
    /\ Done(c) /\ ReadFails(c)
    /\ Len(StepsOf(c)) = 2
    /\ outcome[c].kind = "thrown"

\* C8: no step of an invocation changes process.env.DEBUG, the file system or the
\* schema it was given; the one effect outside its locals is the log line.
C8_Frame ==
  [][ /\ DEBUG' = DEBUG
      /\ fs' = fs
      /\ \A c \in Calls : Started(c) => envSchema'[c] = envSchema[c]
      /\ \/ console' = console
         \/ \E c \in Calls :
              /\ pc[c] = "catch"
              /\ console' = Append(console, [by |-> c, message |-> "Error loading env file:",
                                             err |-> err[c]]) ]_vars

\* one invocation failed and logged, the other returned, and DEBUG is still set
C8_Witness ==
  \E c, d \in Calls :
    /\ Done(c) /\ outcome[c].kind = "thrown"
    /\ Done(d) /\ outcome[d].kind = "returned"
    /\ Truthy(DEBUG)
    /\ Len(console) = 1

\* C9: in every interleaving of two invocations, each one's outcome and log lines
\* are those it produces when run alone on the same inputs, and no step of one
\* changes a local of the other.
C9_Independent ==
  /\ [](\A c \in Calls :
          Done(c) =>
            /\ outcome[c] = Alone(fn[c], pathOfEnvFile[c], envSchema[c]).outcome
            /\ LoggedBy(c) = Alone(fn[c], pathOfEnvFile[c], envSchema[c]).lines)
  /\ [][\A c \in Calls :
          pc'[c] = pc[c] =>
            /\ fn'[c] = fn[c] /\ pathOfEnvFile'[c] = pathOfEnvFile[c]
            /\ envSchema'[c] = envSchema[c] /\ path'[c] = path[c]
            /\ envFile'[c] = envFile[c] /\ json'[c] = json[c] /\ env'[c] = env[c]
            /\ err'[c] = err[c] /\ outcome'[c] = outcome[c] /\ trace'[c] = trace[c]]_vars

\* one invocation has returned while the other, holding a different converted
\* value, is failing
C9_Witness ==
  \E c, d \in Calls :
    /\ Done(c) /\ outcome[c].kind = "returned"
    /\ pc[d] = "throw"
    /\ envFile[d] # NoFile
    /\ json[d] # json[c]

IsPrefix(s, t) == Len(s) <= Len(t) /\ \A i \in 1..Len(s) : s[i] = t[i]

\* C10: getEnv and getStackProps called with the same location and schema make the
\* same calls to join, read, conversion, validation and console.error, and end
\* with the same returned object or the same thrown error.
C10_Equivalent ==
  \A c, d \in Calls :
    ( /\ Started(c) /\ Started(d)
      /\ fn[c] = "getEnv" /\ fn[d] = "getStackProps"
      /\ pathOfEnvFile[c] = pathOfEnvFile[d]
      /\ envSchema[c] = envSchema[d] )
    => /\ IsPrefix(trace[c], trace[d]) \/ IsPrefix(trace[d], trace[c])
       /\ (Done(c) /\ Done(d)) =>
            /\ trace[c] = trace[d]
            /\ outcome[c] = outcome[d]
            /\ LoggedBy(c) = LoggedBy(d)

\* both names were called on the same inputs and both failed with a logged error
C10_Witness ==
  \E c, d \in Calls :
    /\ fn[c] = "getEnv" /\ fn[d] = "getStackProps"
    /\ Done(c) /\ Done(d)
    /\ pathOfEnvFile[c] = pathOfEnvFile[d]
    /\ envSchema[c] = envSchema[d]
    /\ outcome[c].kind = "thrown"
    /\ Len(LoggedBy(c)) = 1

\* C11: the returned object is a new object, distinct from the object parse
\* returned and from the converted value: a field added to it, removed from it or
\* reassigned on it changes neither of them.
C11_FreshObject ==
  /\ [](\A c \in Calls : outcome[c].kind = "returned" => held[c] = "new")
  /\ [][\A c \in Calls :
          (Done(c) /\ outcome'[c] # outcome[c]) =>
            (env'[c] = env[c] /\ json'[c] = json[c])]_vars

\* the caller has added a field to the returned object and parse's object and
\* the converted value are as they were
C11_Witness ==
  \E c \in Calls :
    /\ Done(c) /\ Valid(c)
    /\ "added" \in DOMAIN outcome[c].value
    /\ env[c] = ParseOf(c).value
    /\ json[c] = StructuredOf(c)
    /\ "added" \notin DOMAIN env[c]

\* C12: on a failure the log line is emitted exactly when DEBUG, as it is at the
\* moment of the catch, is a non-empty string ('false' and '0' included; absent
\* and '' not); no other step logs, and the value DEBUG had when the invocation
\* was called plays no part.
C12_TruthyAtFailure ==
  [][ /\ \A c \in Calls :
           (pc[c] = "catch" /\ pc'[c] # "catch") =>
             ( (console' = Append(console, [by |-> c, message |-> "Error loading env file:",
                                            err |-> err[c]]))
               <=> (DEBUG # <<>> /\ DEBUG # <<"">>) )
      /\ console' # console => \E c \in Calls : pc[c] = "catch" /\ pc'[c] # "catch" ]_vars

\* called with DEBUG absent, the invocation logged its failure under DEBUG='false'
C12_Witness ==
  \E c \in Calls :
    /\ pc[c] = "throw"
    /\ debugAtCall[c] = <<>>
    /\ DEBUG = <<"false">>
    /\ Len(LoggedBy(c)) = 1

\* called with DEBUG='true', the invocation failed without a line under DEBUG=''
C12_WitnessSilent ==
  \E c \in Calls :
    /\ pc[c] = "throw"
    /\ debugAtCall[c] = <<"true">>
    /\ DEBUG = <<"">>
    /\ LoggedBy(c) = <<>>

====
